---------------------------- MODULE Spec2Model ----------------------------
(***************************************************************************)
(* Round engine of the dice betting bot (handlers.py, game_logic.py).      *)
(*                                                                         *)
(* One chat is modelled.  The state is the chat's entry of                 *)
(* global_data["all_chat_data"] (player_stats, match_counter,              *)
(* match_history, consecutive_idle_matches), the chat's context.chat_data  *)
(* dictionary, the heap of DiceGame objects and the job queue.             *)
(*                                                                         *)
(* Scheduling: the application is built without concurrent updates         *)
(* (main.py:48), so update handlers (commands, bets, button presses) run   *)
(* one after the other; job-queue callbacks are separate coroutines of the *)
(* same event loop, so a callback and a handler, or two callbacks,         *)
(* interleave at every `await`.  Each action below is the code between two *)
(* consecutive awaits of one coroutine.  Consecutive awaits with no access *)
(* to shared state in between are merged into one suspension.  Timers are  *)
(* untimed: a pending job may fire at any moment.                          *)
(*                                                                         *)
(* Representation: None is 0 for object references, job handles and        *)
(* num_matches_total, and -1 for current_match_index.  A bet dictionary    *)
(* {uid: amount} is a function over Players in which 0 stands for an       *)
(* absent key (every stored amount is >= MIN_BET_AMOUNT > 0).  The         *)
(* username, last_active, start_time and timestamp fields and the copy of  *)
(* the bets kept in a history entry are rendering data and are left out.   *)
(***************************************************************************)
EXTENDS Integers, Sequences, FiniteSets, TLC

\* ------------------------------------------------------------------ bounds
MaxGames == 1        \* Spec: DiceGame objects created in one behaviour
MaxAdjust == 2       \* Spec: /adjustscore commands in one behaviour
MaxBets == 3         \* Spec: calls of place_bet in one behaviour
TwoGames == 2        \* SpecTwo: DiceGame objects created in one behaviour
TwoAdjust == 1       \* SpecTwo: /adjustscore commands in one behaviour
TwoBets == 1         \* SpecTwo: calls of place_bet in one behaviour
SeqGames == 2        \* SpecSeq: DiceGame objects created in one behaviour
IdleGames == 4       \* SpecIdle: DiceGame objects created in one behaviour
CmdGames == 2        \* SpecCmd: DiceGame objects created in one behaviour
MaxRefused == 1      \* refusals recorded in one behaviour, where refusals are observed
DiceGames == 2       \* SpecDice: DiceGame objects created in one behaviour
HistoryGames == 21   \* SpecHistory: DiceGame objects created in one behaviour
BotRounds == 2       \* SpecBot: rolls won or lost by a user in one behaviour
BotMaxPoints == 2000 \* SpecBot: points a user holds at most
BotAdjust == 1       \* SpecBot: /adjust commands in one behaviour
MaxLeave == 1        \* SpecLeave: removals of the bot from the chat in one behaviour
MaxLate == 1         \* late-timer specifications: repeated firings of a fired timer

\* --------------------------------------------------------------- constants
INITIAL_PLAYER_SCORE == 0
MIN_BET_AMOUNT == 100
BUTTON_BET_AMOUNT == 100
MAX_MATCHES == 100
IDLE_LIMIT == 3
INITIAL_POINTS == 1000   \* dice_bot.py
MAX_BET == 5000          \* dice_bot.py
WAITING_FOR_BETS == 0
GAME_CLOSED == 1
GAME_OVER == 2

None == 0
NoIndex == -1

\* ------------------------------------------------------------ input sets
Players == {"P", "Q"}
BetTypes == {"big", "small", "lucky"}
BetAmounts == {50, 100, 200}          \* text bets: below the minimum, the minimum, more
AdjustAmounts == {200, -100}          \* /adjustscore deltas
StartArgs == {1, 2}                   \* /startdice [n]
Rolls == {<<1, 2>>, <<3, 4>>, <<6, 3>>}   \* dice pairs drawn in the model: small, lucky, big
CmdArgs == {-1, 0, 1, 2, 100, 101}    \* SpecCmd: /startdice [n], around both limits
IdleArgs == {1, 4}                    \* SpecIdle: /startdice [n]
IdleRolls == {<<3, 4>>}               \* SpecIdle: the dice pair drawn
DieFaces == 1..6                      \* SpecPayout: every value of a die
Failed == 0                           \* a send_dice call that raised: no die value
DieSources == DieFaces \cup {Failed}   \* SpecDice: what a send_dice call gives
BotAmounts == {0, 500, 1000, 5001}    \* SpecBot: /b, /s, /l amounts
BotAdjustAmounts == {-500}            \* SpecBot: /adjust deltas
PayoutStakes == {0, 100, 200}         \* SpecPayout: a bucket's amount: none, one bet, two bets
PayoutScores == {0, 900}              \* SpecPayout: a score left after the bets

\* ------------------------------------------------------------- variables
VARIABLES
    player_stats,              \* all_chat_data[chat]["player_stats"]: uid -> [score, wins, losses]
    match_counter,             \* all_chat_data[chat]["match_counter"]
    match_history,             \* all_chat_data[chat]["match_history"]
    consecutive_idle_matches,  \* all_chat_data[chat]["consecutive_idle_matches"]
    games,                     \* heap of DiceGame objects, index = object identity
    chat_data,                 \* context.chat_data of the chat
    jobs,                      \* job queue: pending jobs and running callbacks
    upd,                       \* the update handler in progress, if any
    adjusts,                   \* number of admin score adjustments so far
    bets_made,                 \* number of calls of place_bet so far
    refused,                   \* history: reasons for which a handler refused a command or bet
    payouts,                   \* history: gid -> number of executions of payout
    refunded,                  \* history: games refunded by /stop
    fired,                     \* history: <<kind, gid>> of the close and roll timers that have fired
    lates,                     \* history: number of late firings
    events,                    \* history: event kind -> number of messages of that kind sent
    users                      \* dice_bot.py: users, uid -> [points, bets, wins, losses]

vars == <<player_stats, match_counter, match_history, consecutive_idle_matches,
          games, chat_data, jobs, upd, adjusts, bets_made, refused,
          payouts, refunded, fired, lates, events, users>>

\* ------------------------------------------------------------- helpers
RECURSIVE SumOver(_, _)
SumOver(S, f) ==
    IF S = {} THEN 0
    ELSE LET x == CHOOSE y \in S : TRUE IN f[x] + SumOver(S \ {x}, f)

EmptyBets == [bt \in BetTypes |-> [p \in Players |-> 0]]

\* DiceGame.__init__
NewGame(match_id) ==
    [match_id |-> match_id, bets |-> EmptyBets, state |-> WAITING_FOR_BETS,
     result |-> None, participants |-> {}]

\* the chat's entry as created lazily on first access
NewChatData ==
    [player_stats |-> [p \in {} |-> 0], match_counter |-> 1, match_history |-> <<>>,
     consecutive_idle_matches |-> 0]

Idle == [pc |-> "idle", gid |-> None]

EventKinds == {"round_opened", "bets_closed", "round_settled", "auto_stopped",
               "sequence_complete", "refunded", "bot_removed"}

\* one more message of kind ev handed to the transport
Emit(ev) == events' = [events EXCEPT ![ev] = @ + 1]

Init ==
    /\ player_stats = NewChatData.player_stats
    /\ match_counter = NewChatData.match_counter
    /\ match_history = NewChatData.match_history
    /\ consecutive_idle_matches = NewChatData.consecutive_idle_matches
    /\ games = <<>>
    /\ chat_data = [game |-> None, close_bets_job |-> None, roll_and_announce_job |-> None,
                    next_game_job |-> None, num_matches_total |-> None,
                    current_match_index |-> NoIndex]
    /\ jobs = {}
    /\ upd = Idle
    /\ adjusts = 0
    /\ bets_made = 0
    /\ refused = {}
    /\ payouts = <<>>
    /\ refunded = {}
    /\ fired = {}
    /\ lates = 0
    /\ events = [ev \in EventKinds |-> 0]
    /\ users = [u \in {} |-> 0]


\* ------------------------------------------------------ game_logic.py
NewPlayer == [score |-> INITIAL_PLAYER_SCORE, wins |-> 0, losses |-> 0]

\* dict.setdefault(user_id, {...}) on player_stats
SetDefault(ps, uid) ==
    IF uid \in DOMAIN ps THEN ps
    ELSE [p \in DOMAIN ps \cup {uid} |-> IF p = uid THEN NewPlayer ELSE ps[p]]

\* place_bet storing the new amount in place of the accumulated one
place_bet_overwrite(ps, game, user_id, bet_type, amount) ==
    LET ps1 == SetDefault(ps, user_id)
        rejected(err, raised) ==
            [ok |-> FALSE, raised |-> raised, err |-> err, ps |-> ps1, game |-> game]
    IN  IF amount <= 0 THEN rejected("InvalidAmount", FALSE)
        ELSE IF amount < MIN_BET_AMOUNT THEN rejected("BelowMinimum", FALSE)
        ELSE IF ps1[user_id].score < amount THEN rejected("InsufficientFunds", TRUE)
        ELSE [ok |-> TRUE, raised |-> FALSE, err |-> "none",
              ps |-> [ps1 EXCEPT ![user_id].score = @ - amount],
              game |-> [game EXCEPT !.bets[bet_type][user_id] = amount,
                                    !.participants = @ \cup {user_id}]]

\* place_bet that does not record the player as a participant
place_bet_no_participant(ps, game, user_id, bet_type, amount) ==
    LET ps1 == SetDefault(ps, user_id)
        rejected(err, raised) ==
            [ok |-> FALSE, raised |-> raised, err |-> err, ps |-> ps1, game |-> game]
    IN  IF amount <= 0 THEN rejected("InvalidAmount", FALSE)
        ELSE IF amount < MIN_BET_AMOUNT THEN rejected("BelowMinimum", FALSE)
        ELSE IF ps1[user_id].score < amount THEN rejected("InsufficientFunds", TRUE)
        ELSE [ok |-> TRUE, raised |-> FALSE, err |-> "none",
              ps |-> [ps1 EXCEPT ![user_id].score = @ - amount],
              game |-> [game EXCEPT !.bets[bet_type][user_id] = @ + amount]]

\* DiceGame.place_bet: the result (ok), whether the call raised, and the
\* player_stats and game it leaves.  The insufficient-points branch formats
\* player_stats['score'], a key that player_stats (keyed by user id) does not
\* hold: the call raises KeyError there instead of returning (False, msg).
place_bet(ps, game, user_id, bet_type, amount) ==
    LET ps1 == SetDefault(ps, user_id)
        rejected(err, raised) ==
            [ok |-> FALSE, raised |-> raised, err |-> err, ps |-> ps1, game |-> game]
    IN  IF amount <= 0 THEN rejected("InvalidAmount", FALSE)
        ELSE IF amount < MIN_BET_AMOUNT THEN rejected("BelowMinimum", FALSE)
        ELSE IF ps1[user_id].score < amount THEN rejected("InsufficientFunds", TRUE)
        ELSE [ok |-> TRUE, raised |-> FALSE, err |-> "none",
              ps |-> [ps1 EXCEPT ![user_id].score = @ - amount],
              game |-> [game EXCEPT !.bets[bet_type][user_id] = @ + amount,
                                    !.participants = @ \cup {user_id}]]

\* determine_winner taking a result of seven for a big one
determine_winner_seven_is_big(result) ==
    IF result >= 7 THEN "big"
    ELSE "small"

\* DiceGame.determine_winner
determine_winner(result) ==
    IF result = 7 THEN "lucky"
    ELSE IF result > 7 THEN "big"
    ELSE "small"

\* a multiplier that is the same for every winning type
Multiplier_flat(winner_type) == 2

\* the multiplier computed in DiceGame.payout
Multiplier(winner_type) == IF winner_type = "lucky" THEN 5 ELSE 2

HistoryEntry(game, winner_type, participants) ==
    [match_id |-> game.match_id, result |-> game.result, winner |-> winner_type,
     participants |-> participants]

\* sum(self.bets[bt].get(uid, 0) for bt in self.bets)
TotalBetByUser(game, uid) == SumOver(BetTypes, [bt \in BetTypes |-> game.bets[bt][uid]])

\* payout counting a loss for every participant with a bet on a type that lost,
\* a winner of the round included
payout_counts_losing_bets(ps, hist, game) ==
    LET winner_type == determine_winner(game.result)
        winning_bets == game.bets[winner_type]
        multiplier == Multiplier(winner_type)
        any_bets_placed == \E bt \in BetTypes : \E p \in Players : game.bets[bt][p] > 0
        winners == {p \in DOMAIN ps : winning_bets[p] > 0}
        losers == {p \in game.participants \cap DOMAIN ps :
                      TotalBetByUser(game, p) > winning_bets[p]}
    IN  IF ~any_bets_placed
           THEN [ps |-> ps, hist |-> Append(hist, HistoryEntry(game, winner_type, 0))]
        ELSE IF DOMAIN ps = {}
           THEN [ps |-> ps, hist |-> hist]
        ELSE [ps |-> [p \in DOMAIN ps |->
                        IF p \in winners
                           THEN [ps[p] EXCEPT !.score = @ + winning_bets[p] * multiplier,
                                              !.wins = @ + 1,
                                              !.losses = @ + (IF p \in losers THEN 1 ELSE 0)]
                        ELSE IF p \in losers
                           THEN [ps[p] EXCEPT !.losses = @ + 1]
                        ELSE ps[p]],
              hist |-> Append(hist, HistoryEntry(game, winner_type,
                                                 Cardinality(game.participants)))]

\* DiceGame.payout: the player_stats and match_history it leaves
payout(ps, hist, game) ==
    LET winner_type == determine_winner(game.result)
        winning_bets == game.bets[winner_type]
        multiplier == Multiplier(winner_type)
        any_bets_placed == \E bt \in BetTypes : \E p \in Players : game.bets[bt][p] > 0
        winners == {p \in DOMAIN ps : winning_bets[p] > 0}
        losers == {p \in game.participants \cap DOMAIN ps :
                      winning_bets[p] = 0 /\ TotalBetByUser(game, p) > 0}
    IN  IF ~any_bets_placed
           THEN [ps |-> ps, hist |-> Append(hist, HistoryEntry(game, winner_type, 0))]
        ELSE IF DOMAIN ps = {}
           THEN [ps |-> ps, hist |-> hist]
        ELSE [ps |-> [p \in DOMAIN ps |->
                        IF p \in winners
                           THEN [ps[p] EXCEPT !.score = @ + winning_bets[p] * multiplier,
                                              !.wins = @ + 1]
                        ELSE IF p \in losers
                           THEN [ps[p] EXCEPT !.losses = @ + 1]
                        ELSE ps[p]],
              hist |-> Append(hist, HistoryEntry(game, winner_type,
                                                 Cardinality(game.participants)))]


\* ------------------------------------------------------ job queue
\* the identity of a new job: job identities are opaque, so the model takes the
\* least one that no job in the queue and no stored handle carries
FreshId ==
    LET used == {j.id : j \in jobs} \cup {chat_data.close_bets_job,
                     chat_data.roll_and_announce_job, chat_data.next_game_job}
    IN  CHOOSE n \in 1..(Cardinality(used) + 1) :
            n \notin used /\ \A m \in 1..(n - 1) : m \in used

\* job_queue.run_once(callback, delay, data=game): a new pending job
NewJob(kind, gid) == [id |-> FreshId, kind |-> kind, gid |-> gid, pc |-> "pending"]

\* Job.schedule_removal() on the handles given: a pending job is removed; for a job
\* that has fired (running or finished) it raises JobLookupError, which the callers
\* catch, and the running callback goes on
Cancel(js, handles) == {j \in js : ~(j.pc = "pending" /\ j.id \in handles)}

Pending(kind) == {j \in jobs : j.kind = kind /\ j.pc = "pending"}
Running(kind, pc) == {j \in jobs : j.kind = kind /\ j.pc = pc}

\* ------------------------------------------------------ handlers.py: update handlers
\* a command or bet that a handler refuses before acting on it: only the reply is
\* sent, and the reason is recorded
Refuse(reason) ==
    /\ refused' = refused \cup {reason}
    /\ UNCHANGED <<player_stats, match_counter, match_history, consecutive_idle_matches,
                   games, chat_data, jobs, upd, adjusts, bets_made, payouts, refunded,
                   fired, lates, users, events>>

\* a round opened without advancing the chat's match counter
OpenRound_keeps_counter ==
    /\ games' = Append(games, NewGame(match_counter))
    /\ payouts' = Append(payouts, 0)
    /\ match_counter' = match_counter

\* _start_interactive_game_round up to its first await (sending the round-opened
\* message): takes the match id, creates the game and stores it as the current game
OpenRound ==
    /\ games' = Append(games, NewGame(match_counter))
    /\ payouts' = Append(payouts, 0)
    /\ match_counter' = match_counter + 1

\* start_dice without the check for a game in progress
StartDice_any_time(n) ==
    /\ upd.pc = "idle"
    /\ LET current_game == chat_data.game IN
       IF chat_data.num_matches_total # None
          THEN Refuse("SequenceAlreadyActive")
       ELSE IF n <= 0
          THEN Refuse("InvalidCount")
       ELSE IF n > MAX_MATCHES
          THEN Refuse("TooManyMatches")
       ELSE IF n > 1
          THEN /\ chat_data' = [chat_data EXCEPT !.num_matches_total = n,
                                                 !.current_match_index = 0]
               /\ upd' = [pc |-> "start_seq_send", gid |-> None]
               /\ UNCHANGED events
               /\ UNCHANGED <<player_stats, match_counter, match_history,
                              consecutive_idle_matches, games, jobs,
                              adjusts, bets_made, refused, payouts, refunded, fired, lates, users>>
       ELSE /\ OpenRound
            /\ chat_data' = [chat_data EXCEPT !.game = Len(games) + 1]
            /\ upd' = [pc |-> "start_round_send", gid |-> Len(games) + 1]
            /\ Emit("round_opened")
            /\ UNCHANGED <<player_stats, match_history, consecutive_idle_matches,
                           jobs, adjusts, bets_made, refused, refunded, fired, lates, users>>

\* start_dice without the upper limit on the number of matches
StartDice_no_ceiling(n) ==
    /\ upd.pc = "idle"
    /\ LET current_game == chat_data.game IN
       IF current_game # None /\ games[current_game].state # GAME_OVER
          THEN Refuse("RoundAlreadyActive")
       ELSE IF chat_data.num_matches_total # None
          THEN Refuse("SequenceAlreadyActive")
       ELSE IF n <= 0
          THEN Refuse("InvalidCount")
       ELSE IF n > 1
          THEN /\ chat_data' = [chat_data EXCEPT !.num_matches_total = n,
                                                 !.current_match_index = 0]
               /\ upd' = [pc |-> "start_seq_send", gid |-> None]
               /\ UNCHANGED events
               /\ UNCHANGED <<player_stats, match_counter, match_history,
                              consecutive_idle_matches, games, jobs,
                              adjusts, bets_made, refused, payouts, refunded, fired, lates, users>>
       ELSE /\ OpenRound
            /\ chat_data' = [chat_data EXCEPT !.game = Len(games) + 1]
            /\ upd' = [pc |-> "start_round_send", gid |-> Len(games) + 1]
            /\ Emit("round_opened")
            /\ UNCHANGED <<player_stats, match_history, consecutive_idle_matches,
                           jobs, adjusts, bets_made, refused, refunded, fired, lates, users>>

\* start_dice without the check for a sequence in progress
StartDice_no_sequence_check(n) ==
    /\ upd.pc = "idle"
    /\ LET current_game == chat_data.game IN
       IF current_game # None /\ games[current_game].state # GAME_OVER
          THEN Refuse("RoundAlreadyActive")
       ELSE IF n <= 0
          THEN Refuse("InvalidCount")
       ELSE IF n > MAX_MATCHES
          THEN Refuse("TooManyMatches")
       ELSE IF n > 1
          THEN /\ chat_data' = [chat_data EXCEPT !.num_matches_total = n,
                                                 !.current_match_index = 0]
               /\ upd' = [pc |-> "start_seq_send", gid |-> None]
               /\ UNCHANGED events
               /\ UNCHANGED <<player_stats, match_counter, match_history,
                              consecutive_idle_matches, games, jobs,
                              adjusts, bets_made, refused, payouts, refunded, fired, lates, users>>
       ELSE /\ OpenRound
            /\ chat_data' = [chat_data EXCEPT !.game = Len(games) + 1]
            /\ upd' = [pc |-> "start_round_send", gid |-> Len(games) + 1]
            /\ Emit("round_opened")
            /\ UNCHANGED <<player_stats, match_history, consecutive_idle_matches,
                           jobs, adjusts, bets_made, refused, refunded, fired, lates, users>>

\* start_dice up to its first await
StartDice(n) ==
    /\ upd.pc = "idle"
    /\ LET current_game == chat_data.game IN
       IF current_game # None /\ games[current_game].state # GAME_OVER
          THEN Refuse("RoundAlreadyActive")
       ELSE IF chat_data.num_matches_total # None
          THEN Refuse("SequenceAlreadyActive")
       ELSE IF n <= 0
          THEN Refuse("InvalidCount")
       ELSE IF n > MAX_MATCHES
          THEN Refuse("TooManyMatches")
       ELSE IF n > 1
          THEN /\ chat_data' = [chat_data EXCEPT !.num_matches_total = n,
                                                 !.current_match_index = 0]
               /\ upd' = [pc |-> "start_seq_send", gid |-> None]
               /\ UNCHANGED events
               /\ UNCHANGED <<player_stats, match_counter, match_history,
                              consecutive_idle_matches, games, jobs,
                              adjusts, bets_made, refused, payouts, refunded, fired, lates, users>>
       ELSE /\ OpenRound
            /\ chat_data' = [chat_data EXCEPT !.game = Len(games) + 1]
            /\ upd' = [pc |-> "start_round_send", gid |-> Len(games) + 1]
            /\ Emit("round_opened")
            /\ UNCHANGED <<player_stats, match_history, consecutive_idle_matches,
                           jobs, adjusts, bets_made, refused, refunded, fired, lates, users>>

\* start_dice, sequence branch, after the reply was sent: schedules the sequence job
StartSeqSent ==
    /\ upd.pc = "start_seq_send"
    /\ jobs' = jobs \cup {NewJob("seq", None)}
    /\ chat_data' = [chat_data EXCEPT !.next_game_job = FreshId]
    /\ upd' = Idle
    /\ UNCHANGED events
    /\ UNCHANGED <<player_stats, match_counter, match_history, consecutive_idle_matches,
                   games, adjusts, bets_made, refused, payouts, refunded, fired, lates, users>>

\* an awaited send of an update handler raises: the handler ends there
UpdSendFails ==
    /\ upd.pc \in {"start_seq_send", "start_round_send"}
    /\ upd' = Idle
    /\ UNCHANGED events
    /\ UNCHANGED <<player_stats, match_counter, match_history, consecutive_idle_matches,
                   games, chat_data, jobs, adjusts, bets_made, refused, payouts, refunded,
                   fired, lates, users>>

\* the round start scheduling the roll callback in place of the close callback
StartRoundSent_roll ==
    /\ upd.pc = "start_round_send"
    /\ jobs' = jobs \cup {NewJob("roll", upd.gid)}
    /\ chat_data' = [chat_data EXCEPT !.close_bets_job = FreshId]
    /\ upd' = Idle
    /\ UNCHANGED events
    /\ UNCHANGED <<player_stats, match_counter, match_history, consecutive_idle_matches,
                   games, adjusts, bets_made, refused, payouts, refunded, fired, lates, users>>

\* _start_interactive_game_round called by start_dice, after the round-opened message
\* was sent: schedules the close job of the game it created
StartRoundSent ==
    /\ upd.pc = "start_round_send"
    /\ jobs' = jobs \cup {NewJob("close", upd.gid)}
    /\ chat_data' = [chat_data EXCEPT !.close_bets_job = FreshId]
    /\ upd' = Idle
    /\ UNCHANGED events
    /\ UNCHANGED <<player_stats, match_counter, match_history, consecutive_idle_matches,
                   games, adjusts, bets_made, refused, payouts, refunded, fired, lates, users>>

\* a bet handler without the check of the game's state
Bet_unchecked(user_id, bet_type, amount) ==
    /\ upd.pc = "idle"
    /\ LET game == chat_data.game IN
       IF game = None
          THEN Refuse("NoGame")
       ELSE LET r == place_bet(player_stats, games[game], user_id, bet_type, amount) IN
            /\ bets_made' = bets_made + 1
            /\ player_stats' = r.ps
            /\ games' = [games EXCEPT ![game] = r.game]
            /\ consecutive_idle_matches' = IF r.ok THEN 0 ELSE consecutive_idle_matches
            /\ UNCHANGED <<match_counter, match_history, chat_data, jobs, upd, adjusts,
                           refused, payouts, refunded, fired, lates, users, events>>

\* a bet handler that leaves the idle counter alone
Bet_keeps_idle(user_id, bet_type, amount) ==
    /\ upd.pc = "idle"
    /\ LET game == chat_data.game IN
       IF game = None
          THEN Refuse("NoGame")
       ELSE IF games[game].state # WAITING_FOR_BETS
          THEN Refuse(IF games[game].state = GAME_CLOSED THEN "Closed" ELSE "Over")
       ELSE LET r == place_bet(player_stats, games[game], user_id, bet_type, amount) IN
            /\ bets_made' = bets_made + 1
            /\ player_stats' = r.ps
            /\ games' = [games EXCEPT ![game] = r.game]
            /\ consecutive_idle_matches' = consecutive_idle_matches
            /\ UNCHANGED <<match_counter, match_history, chat_data, jobs, upd, adjusts,
                           refused, payouts, refunded, fired, lates, users, events>>

\* a bet on the current game: the checks of handle_bet / button_callback, then
\* place_bet and the reset of the idle counter
Bet(user_id, bet_type, amount) ==
    /\ upd.pc = "idle"
    /\ LET game == chat_data.game IN
       IF game = None
          THEN Refuse("NoGame")
       ELSE IF games[game].state # WAITING_FOR_BETS
          THEN Refuse(IF games[game].state = GAME_CLOSED THEN "Closed" ELSE "Over")
       ELSE LET r == place_bet(player_stats, games[game], user_id, bet_type, amount) IN
            /\ bets_made' = bets_made + 1
            /\ player_stats' = r.ps
            /\ games' = [games EXCEPT ![game] = r.game]
            /\ consecutive_idle_matches' = IF r.ok THEN 0 ELSE consecutive_idle_matches
            /\ UNCHANGED <<match_counter, match_history, chat_data, jobs, upd, adjusts,
                           refused, payouts, refunded, fired, lates, users, events>>

\* handle_bet: a text bet `<type> <amount>`
HandleBet(user_id, bet_type, amount) == Bet(user_id, bet_type, amount)

\* button_callback: a bet of 100 on the button's type
ButtonCallback(user_id, bet_type) == Bet(user_id, bet_type, BUTTON_BET_AMOUNT)

\* adjust_score: creates the player if unknown (when the lookup of the chat member
\* fails the command is answered with an error and changes nothing), then adds the
\* amount to the score as it is
AdjustScore(target_user_id, amount_to_adjust) ==
    /\ upd.pc = "idle"
    /\ adjusts' = adjusts + 1
    /\ UNCHANGED <<bets_made, refused>>
    /\ player_stats' = [SetDefault(player_stats, target_user_id)
                           EXCEPT ![target_user_id].score = @ + amount_to_adjust]
    /\ UNCHANGED events
    /\ UNCHANGED <<match_counter, match_history, consecutive_idle_matches, games,
                   chat_data, jobs, upd, payouts, refunded, fired, lates, users>>

\* a refund loop that leaves out the lucky bets
Refund_without_lucky(ps, game) ==
    [p \in DOMAIN ps |->
        [ps[p] EXCEPT !.score = @ + game.bets["big"][p] + game.bets["small"][p]]]

\* a refund loop that also books a loss for every player it refunds
Refund_records_loss(ps, game) ==
    [p \in DOMAIN ps |->
        [ps[p] EXCEPT !.score = @ + TotalBetByUser(game, p),
                      !.losses = @ + (IF TotalBetByUser(game, p) > 0 THEN 1 ELSE 0)]]

\* the refund loop of stop_game: every player in player_stats gets back the sum of
\* the player's bets over the three bet types
Refund(ps, game) ==
    [p \in DOMAIN ps |-> [ps[p] EXCEPT !.score = @ + TotalBetByUser(game, p)]]

\* stop_game without the early return for a round that is over
StopGame_settled_too ==
    /\ upd.pc = "idle"
    /\ LET current_game == chat_data.game IN
       IF current_game = None
          THEN Refuse("NoActiveRound")
       ELSE /\ jobs' = Cancel(jobs, {chat_data.close_bets_job,
                                     chat_data.roll_and_announce_job,
                                     chat_data.next_game_job})
            /\ player_stats' = Refund(player_stats, games[current_game])
            /\ chat_data' = [game |-> None, close_bets_job |-> None,
                             roll_and_announce_job |-> None, next_game_job |-> None,
                             num_matches_total |-> None, current_match_index |-> NoIndex]
            /\ refunded' = refunded \cup {current_game}
            /\ Emit("refunded")
            /\ UNCHANGED <<match_counter, match_history, consecutive_idle_matches,
                           games, upd, adjusts, bets_made, refused, payouts, fired, lates, users>>

\* stop_game
StopGame ==
    /\ upd.pc = "idle"
    /\ LET current_game == chat_data.game IN
       IF current_game = None
          THEN Refuse("NoActiveRound")
       ELSE IF games[current_game].state = GAME_OVER
          THEN Refuse("RoundOver")
       ELSE /\ jobs' = Cancel(jobs, {chat_data.close_bets_job,
                                     chat_data.roll_and_announce_job,
                                     chat_data.next_game_job})
            /\ player_stats' = Refund(player_stats, games[current_game])
            /\ chat_data' = [game |-> None, close_bets_job |-> None,
                             roll_and_announce_job |-> None, next_game_job |-> None,
                             num_matches_total |-> None, current_match_index |-> NoIndex]
            /\ refunded' = refunded \cup {current_game}
            /\ Emit("refunded")
            /\ UNCHANGED <<match_counter, match_history, consecutive_idle_matches,
                           games, upd, adjusts, bets_made, refused, payouts, fired, lates, users>>


\* on_chat_member_update for the bot itself with the new status "left": deletes the
\* chat's entry of all_chat_data, which the next access creates anew; the test
\* `chat_id in context.chat_data` is false (the keys of context.chat_data are "game",
\* the job handles and the sequence fields), so context.chat_data keeps its
\* contents, and no job is cancelled
BotRemoved ==
    /\ upd.pc = "idle"
    /\ player_stats' = NewChatData.player_stats
    /\ match_counter' = NewChatData.match_counter
    /\ match_history' = NewChatData.match_history
    /\ consecutive_idle_matches' = NewChatData.consecutive_idle_matches
    /\ Emit("bot_removed")
    /\ UNCHANGED <<games, chat_data, jobs, upd, adjusts, bets_made, refused, payouts,
                   refunded, fired, lates, users>>

\* ------------------------------------------------------ handlers.py: job callbacks
\* close_bets_scheduled without the comparison with the current game
CloseCallback_nostale(task, rest) ==
    LET game == task.gid
    IN  /\ chat_data' = [chat_data EXCEPT !.close_bets_job = None]
        /\ jobs' = rest \cup {[task EXCEPT !.pc = "c_send"]}
        /\ games' = [games EXCEPT ![game].state = GAME_CLOSED]
        /\ Emit("bets_closed")
        /\ UNCHANGED <<player_stats, match_counter, match_history,
                       consecutive_idle_matches, upd, adjusts, bets_made, refused, payouts,
                       refunded, users>>

\* close_bets_scheduled up to its first await, run as task `task` for the job's game:
\* forgets the stored close handle, returns if the game is not the current game,
\* else closes the bets and sends the summary
CloseCallback(task, rest) ==
    LET game == task.gid
        current_game_in_context == chat_data.game
    IN  /\ chat_data' = [chat_data EXCEPT !.close_bets_job = None]
        /\ IF current_game_in_context = None \/ current_game_in_context # game
              THEN /\ jobs' = rest
                   /\ games' = games
                   /\ UNCHANGED events
              ELSE /\ jobs' = rest \cup {[task EXCEPT !.pc = "c_send"]}
                   /\ games' = [games EXCEPT ![game].state = GAME_CLOSED]
                   /\ Emit("bets_closed")
        /\ UNCHANGED <<player_stats, match_counter, match_history,
                       consecutive_idle_matches, upd, adjusts, bets_made, refused, payouts,
                       refunded, users>>

\* the close timer of a game fires
CloseFire(j) ==
    /\ j \in Pending("close")
    /\ fired' = fired \cup {<<j.kind, j.gid>>}
    /\ CloseCallback(j, jobs \ {j})
    /\ UNCHANGED lates

\* the close callback of a game is invoked once more after its timer has fired
LateCloseFire(g) ==
    /\ <<"close", g>> \in fired
    /\ lates' = lates + 1
    /\ CloseCallback([id |-> FreshId, kind |-> "close", gid |-> g, pc |-> "pending"], jobs)
    /\ UNCHANGED fired

\* close_bets_scheduled after the summary was sent (an error of the send is caught):
\* schedules the roll job of the game
CloseSent(j) ==
    /\ j \in Running("close", "c_send")
    /\ jobs' = (jobs \ {j}) \cup {NewJob("roll", j.gid)}
    /\ chat_data' = [chat_data EXCEPT !.roll_and_announce_job = FreshId]
    /\ UNCHANGED events
    /\ UNCHANGED <<player_stats, match_counter, match_history, consecutive_idle_matches,
                   games, upd, adjusts, bets_made, refused, payouts, refunded, fired, lates, users>>

\* the early returns without the one for a game that is already over
RollSkips_first_only(game, current_game_in_context) ==
    /\ current_game_in_context # None
    /\ current_game_in_context # game
    /\ games[game].state # GAME_CLOSED

\* the two early returns of roll_and_announce_scheduled
RollSkips(game, current_game_in_context) ==
    \/ /\ current_game_in_context # None
       /\ current_game_in_context # game
       /\ games[game].state # GAME_CLOSED
    \/ games[game].state = GAME_OVER

\* roll_and_announce_scheduled up to its first await, run as task `task`: forgets the
\* stored roll handle, returns on its guards, else sets GAME_OVER and rolls the dice
RollCallback(task, rest) ==
    LET game == task.gid
        current_game_in_context == chat_data.game
    IN  /\ chat_data' = [chat_data EXCEPT !.roll_and_announce_job = None]
        /\ IF RollSkips(game, current_game_in_context)
              THEN /\ jobs' = rest
                   /\ games' = games
                   /\ UNCHANGED events
              ELSE /\ jobs' = rest \cup {[task EXCEPT !.pc = "r_dice"]}
                   /\ games' = [games EXCEPT ![game].state = GAME_OVER]
                   /\ UNCHANGED events
        /\ UNCHANGED <<player_stats, match_counter, match_history,
                       consecutive_idle_matches, upd, adjusts, bets_made, refused, payouts,
                       refunded, users>>

\* the roll timer of a game fires
RollFire(j) ==
    /\ j \in Pending("roll")
    /\ fired' = fired \cup {<<j.kind, j.gid>>}
    /\ RollCallback(j, jobs \ {j})
    /\ UNCHANGED lates

\* the roll callback of a game is invoked once more after its timer has fired
LateRollFire(g) ==
    /\ <<"roll", g>> \in fired
    /\ lates' = lates + 1
    /\ RollCallback([id |-> FreshId, kind |-> "roll", gid |-> g, pc |-> "pending"], jobs)
    /\ UNCHANGED fired

\* roll_and_announce_scheduled once the dice are known (from send_dice, or from
\* random.randint when send_dice raised): stores the result, runs payout and sends
\* the results message
RollDice(j, d1, d2) ==
    /\ j \in Running("roll", "r_dice")
    /\ LET game == [games[j.gid] EXCEPT !.result = d1 + d2]
           paid == payout(player_stats, match_history, game)
       IN  /\ games' = [games EXCEPT ![j.gid] = game]
           /\ player_stats' = paid.ps
           /\ match_history' = paid.hist
    /\ payouts' = [payouts EXCEPT ![j.gid] = @ + 1]
    /\ jobs' = (jobs \ {j}) \cup {[j EXCEPT !.pc = "r_result"]}
    /\ Emit("round_settled")
    /\ UNCHANGED <<match_counter, consecutive_idle_matches, chat_data,
                   upd, adjusts, bets_made, refused, refunded, fired, lates, users>>

\* the dice of a round with a fallback that replaces only the die whose send failed
\* and leaves the first die at its initial 0 when the second send failed
DiceValues_partial_fallback(s1, s2, r1, r2) ==
    IF s1 = Failed THEN <<r1, r2>>
    ELSE IF s2 = Failed THEN <<0, r2>>
    ELSE <<s1, s2>>

\* the dice of a round: the values of the two send_dice calls; when either call
\* raised, both dice are drawn again by random.randint(1, 6)
DiceValues(s1, s2, r1, r2) ==
    IF s1 = Failed \/ s2 = Failed THEN <<r1, r2>> ELSE <<s1, s2>>

\* roll_and_announce_scheduled from the first send_dice to the results message, for
\* the outcomes s1, s2 of the two send_dice calls and the fallback draws r1, r2
RollDiceFrom(j, s1, s2, r1, r2) ==
    LET d == DiceValues(s1, s2, r1, r2) IN RollDice(j, d[1], d[2])

\* roll_and_announce_scheduled after the results message (an error of the send is
\* caught): the idle counter, then the auto-stop message, or the next round of the
\* sequence, or the cleanup of a single round
RollFinish(j) ==
    /\ j \in Running("roll", "r_result")
    /\ LET idle == IF games[j.gid].participants = {}
                      THEN consecutive_idle_matches + 1 ELSE 0
       IN  /\ consecutive_idle_matches' = idle
           /\ IF idle >= IDLE_LIMIT
                 THEN /\ jobs' = (jobs \ {j}) \cup {[j EXCEPT !.pc = "r_autostop"]}
                      /\ Emit("auto_stopped")
                      /\ UNCHANGED chat_data
              ELSE IF chat_data.num_matches_total # None
                 THEN /\ jobs' = (jobs \ {j}) \cup {NewJob("seq", None)}
                      /\ chat_data' = [chat_data EXCEPT !.next_game_job = FreshId]
                      /\ UNCHANGED events
              ELSE /\ jobs' = jobs \ {j}
                   /\ chat_data' = [chat_data EXCEPT !.game = None, !.next_game_job = None]
                   /\ UNCHANGED events
    /\ UNCHANGED <<player_stats, match_counter, match_history, games, upd, adjusts, bets_made, refused,
                   payouts, refunded, fired, lates, users>>

\* roll_and_announce_scheduled after the auto-stop message was sent: clears the game
\* and the sequence and cancels the next-game and close jobs
RollAutoStop(j) ==
    /\ j \in Running("roll", "r_autostop")
    /\ jobs' = Cancel(jobs \ {j}, {chat_data.next_game_job, chat_data.close_bets_job})
    /\ chat_data' = [chat_data EXCEPT !.game = None, !.num_matches_total = None,
                                      !.current_match_index = NoIndex,
                                      !.next_game_job = None, !.close_bets_job = None]
    /\ UNCHANGED events
    /\ UNCHANGED <<player_stats, match_counter, match_history, consecutive_idle_matches,
                   games, upd, adjusts, bets_made, refused, payouts, refunded, fired, lates, users>>

\* an awaited send of a callback raises outside any try block (the auto-stop message,
\* the round-opened message of a sequence round): the callback ends there
JobSendFails(j) ==
    /\ j \in Running("roll", "r_autostop") \cup Running("seq", "s_open")
    /\ jobs' = jobs \ {j}
    /\ UNCHANGED events
    /\ UNCHANGED <<player_stats, match_counter, match_history, consecutive_idle_matches,
                   games, chat_data, upd, adjusts, bets_made, refused, payouts, refunded,
                   fired, lates, users>>

\* _manage_game_sequence up to its first await
SeqFire(j) ==
    /\ j \in Pending("seq")
    /\ UNCHANGED fired
    /\ LET num_matches_total == chat_data.num_matches_total
           current_match_index == chat_data.current_match_index
           cleared == [chat_data EXCEPT !.num_matches_total = None,
                                        !.current_match_index = NoIndex,
                                        !.game = None, !.next_game_job = None]
       IN  IF num_matches_total = None \/ current_match_index = NoIndex
              THEN /\ chat_data' = cleared
                   /\ jobs' = jobs \ {j}
                   /\ UNCHANGED events
                   /\ UNCHANGED <<games, payouts, match_counter>>
           ELSE IF current_match_index < num_matches_total
              THEN /\ OpenRound
                   /\ chat_data' = [chat_data EXCEPT
                                       !.current_match_index = current_match_index + 1,
                                       !.game = Len(games) + 1]
                   /\ jobs' = (jobs \ {j}) \cup
                                 {[j EXCEPT !.pc = "s_open", !.gid = Len(games) + 1]}
                   /\ Emit("round_opened")
           ELSE /\ chat_data' = cleared
                /\ jobs' = jobs \ {j}
                /\ Emit("sequence_complete")
                /\ UNCHANGED <<games, payouts, match_counter>>
    /\ UNCHANGED <<player_stats, match_history, consecutive_idle_matches,
                   upd, adjusts, bets_made, refused, refunded, lates, users>>

\* _start_interactive_game_round called by _manage_game_sequence, after the
\* round-opened message was sent: schedules the close job of the game it created
SeqOpenSent(j) ==
    /\ j \in Running("seq", "s_open")
    /\ jobs' = (jobs \ {j}) \cup {NewJob("close", j.gid)}
    /\ chat_data' = [chat_data EXCEPT !.close_bets_job = FreshId]
    /\ UNCHANGED events
    /\ UNCHANGED <<player_stats, match_counter, match_history, consecutive_idle_matches,
                   games, upd, adjusts, bets_made, refused, payouts, refunded, fired, lates, users>>

\* ------------------------------------------------------ specifications
\* the bounds of a specification: games created, /adjustscore commands, place_bet
\* calls and late firings in one behaviour
Cap(g, a, b, l) ==
    /\ Len(games') <= g
    /\ adjusts' <= a
    /\ bets_made' <= b
    /\ Cardinality(refused') <= IF b = 0 THEN 0 ELSE MaxRefused
    /\ lates' <= l

\* single rounds with bets, score adjustments and /stop, within the bounds given
NextRound(g, a, b, l) ==
    \/ StartDice(1) /\ Cap(g, a, b, l)
    \/ StartRoundSent /\ Cap(g, a, b, l)
    \/ UpdSendFails /\ Cap(g, a, b, l)
    \/ (\E p \in Players, bt \in BetTypes, amt \in BetAmounts : HandleBet(p, bt, amt))
          /\ Cap(g, a, b, l)
    \/ (\E p \in Players, bt \in BetTypes : ButtonCallback(p, bt)) /\ Cap(g, a, b, l)
    \/ (\E p \in Players, amt \in AdjustAmounts : AdjustScore(p, amt)) /\ Cap(g, a, b, l)
    \/ StopGame /\ Cap(g, a, b, l)
    \/ (\E j \in jobs : CloseFire(j)) /\ Cap(g, a, b, l)
    \/ (\E j \in jobs : CloseSent(j)) /\ Cap(g, a, b, l)
    \/ (\E j \in jobs : RollFire(j)) /\ Cap(g, a, b, l)
    \/ (\E j \in jobs, r \in Rolls : RollDice(j, r[1], r[2])) /\ Cap(g, a, b, l)
    \/ (\E j \in jobs : RollFinish(j)) /\ Cap(g, a, b, l)

\* one round of a chat, with bets, adjustments and /stop
Spec == Init /\ [][NextRound(MaxGames, MaxAdjust, MaxBets, 0)]_vars

\* two rounds of a chat, the second possibly opened while the first is being settled
SpecTwo == Init /\ [][NextRound(TwoGames, TwoAdjust, TwoBets, 0)]_vars

\* single rounds and sequences of rounds with /stop, without bets
NextSeq(g) ==
    \/ (\E n \in StartArgs : StartDice(n)) /\ Cap(g, 0, 0, 0)
    \/ StartRoundSent /\ Cap(g, 0, 0, 0)
    \/ StartSeqSent /\ Cap(g, 0, 0, 0)
    \/ UpdSendFails /\ Cap(g, 0, 0, 0)
    \/ StopGame /\ Cap(g, 0, 0, 0)
    \/ (\E j \in jobs : CloseFire(j)) /\ Cap(g, 0, 0, 0)
    \/ (\E j \in jobs : CloseSent(j)) /\ Cap(g, 0, 0, 0)
    \/ (\E j \in jobs : RollFire(j)) /\ Cap(g, 0, 0, 0)
    \/ (\E j \in jobs, r \in Rolls : RollDice(j, r[1], r[2])) /\ Cap(g, 0, 0, 0)
    \/ (\E j \in jobs : RollFinish(j)) /\ Cap(g, 0, 0, 0)
    \/ (\E j \in jobs : JobSendFails(j)) /\ Cap(g, 0, 0, 0)
    \/ (\E j \in jobs : SeqFire(j)) /\ Cap(g, 0, 0, 0)
    \/ (\E j \in jobs : SeqOpenSent(j)) /\ Cap(g, 0, 0, 0)

SpecSeq == Init /\ [][NextSeq(SeqGames)]_vars

\* one round with bets, and a roll callback that may be invoked a second time
SpecLateRoll ==
    Init /\ [][\/ NextRound(MaxGames, TwoAdjust, MaxBets, MaxLate)
               \/ (\E g \in 1..Len(games) : LateRollFire(g))
                     /\ Cap(MaxGames, TwoAdjust, MaxBets, MaxLate)]_vars

\* one round with bets, and a close callback that may be invoked a second time
SpecLateClose ==
    Init /\ [][\/ NextRound(MaxGames, TwoAdjust, TwoBets, MaxLate)
               \/ (\E g \in 1..Len(games) : LateCloseFire(g))
                     /\ Cap(MaxGames, TwoAdjust, TwoBets, MaxLate)]_vars

\* a round as close_bets_scheduled leaves it: closed, current, its roll job pending,
\* every player with an account, any bet book over PayoutStakes and any scores over
\* PayoutScores; the participants are the players with a bet
InitPayout ==
    /\ \E scores \in [Players -> PayoutScores] :
          player_stats = [p \in Players |-> [NewPlayer EXCEPT !.score = scores[p]]]
    /\ \E bets \in [BetTypes -> [Players -> PayoutStakes]] :
          /\ games = <<[NewGame(NewChatData.match_counter) EXCEPT
                          !.bets = bets,
                          !.state = GAME_CLOSED,
                          !.participants =
                              {p \in Players : \E bt \in BetTypes : bets[bt][p] > 0}]>>
          /\ bets_made = Cardinality({x \in BetTypes \X Players : bets[x[1]][x[2]] > 0})
    /\ match_counter = NewChatData.match_counter + 1
    /\ match_history = NewChatData.match_history
    /\ consecutive_idle_matches = NewChatData.consecutive_idle_matches
    /\ chat_data = [game |-> 1, close_bets_job |-> None, roll_and_announce_job |-> 1,
                    next_game_job |-> None, num_matches_total |-> None,
                    current_match_index |-> NoIndex]
    /\ jobs = {[id |-> 1, kind |-> "roll", gid |-> 1, pc |-> "pending"]}
    /\ upd = Idle
    /\ adjusts = 0
    /\ refused = {}
    /\ payouts = <<0>>
    /\ refunded = {}
    /\ fired = {<<"close", 1>>}
    /\ lates = 0
    /\ events = [ev \in EventKinds |->
                    IF ev \in {"round_opened", "bets_closed"} THEN 1 ELSE 0]
    /\ users = [u \in {} |-> 0]

\* the roll callback of the closed round, with every pair of die values
NextPayout ==
    \/ \E j \in jobs : RollFire(j)
    \/ \E j \in jobs, d1 \in DieFaces, d2 \in DieFaces : RollDice(j, d1, d2)
    \/ \E j \in jobs : RollFinish(j)

\* the settlement of one closed round, for every bet book, score and roll drawn
SpecPayout == InitPayout /\ [][NextPayout]_vars

\* single rounds and sequences of rounds that run to their settlement, the idle
\* auto-stop included, without bets and without /stop
NextIdle(g) ==
    \/ (\E n \in IdleArgs : StartDice(n)) /\ Cap(g, 0, 0, 0)
    \/ StartRoundSent /\ Cap(g, 0, 0, 0)
    \/ StartSeqSent /\ Cap(g, 0, 0, 0)
    \/ (\E j \in jobs : CloseFire(j)) /\ Cap(g, 0, 0, 0)
    \/ (\E j \in jobs : CloseSent(j)) /\ Cap(g, 0, 0, 0)
    \/ (\E j \in jobs : RollFire(j)) /\ Cap(g, 0, 0, 0)
    \/ (\E j \in jobs, r \in IdleRolls : RollDice(j, r[1], r[2])) /\ Cap(g, 0, 0, 0)
    \/ (\E j \in jobs : RollFinish(j)) /\ Cap(g, 0, 0, 0)
    \/ (\E j \in jobs : RollAutoStop(j)) /\ Cap(g, 0, 0, 0)
    \/ (\E j \in jobs : JobSendFails(j)) /\ Cap(g, 0, 0, 0)
    \/ (\E j \in jobs : SeqFire(j)) /\ Cap(g, 0, 0, 0)
    \/ (\E j \in jobs : SeqOpenSent(j)) /\ Cap(g, 0, 0, 0)

\* up to four rounds of a chat, enough for the idle limit to be reached and passed
SpecIdle == Init /\ [][NextIdle(IdleGames)]_vars

\* single rounds without bets, each started when no timer of the chat is pending
\* or running any more, and run to its settlement
NextHistory(g) ==
    \/ StartDice(1) /\ jobs = {} /\ Cap(g, 0, 0, 0)
    \/ StartRoundSent /\ Cap(g, 0, 0, 0)
    \/ (\E j \in jobs : CloseFire(j)) /\ Cap(g, 0, 0, 0)
    \/ (\E j \in jobs : CloseSent(j)) /\ Cap(g, 0, 0, 0)
    \/ (\E j \in jobs : RollFire(j)) /\ Cap(g, 0, 0, 0)
    \/ (\E j \in jobs, r \in IdleRolls : RollDice(j, r[1], r[2])) /\ Cap(g, 0, 0, 0)
    \/ (\E j \in jobs : RollFinish(j)) /\ Cap(g, 0, 0, 0)
    \/ (\E j \in jobs : RollAutoStop(j)) /\ Cap(g, 0, 0, 0)

\* as many single rounds as it takes for the history to pass twenty entries
SpecHistory == Init /\ [][NextHistory(HistoryGames)]_vars

\* single rounds without bets, run to their settlement with every outcome of the
\* two send_dice calls and of the fallback draws
NextDice(g) ==
    \/ StartDice(1) /\ jobs = {} /\ Cap(g, 0, 0, 0)
    \/ StartRoundSent /\ Cap(g, 0, 0, 0)
    \/ (\E j \in jobs : CloseFire(j)) /\ Cap(g, 0, 0, 0)
    \/ (\E j \in jobs : CloseSent(j)) /\ Cap(g, 0, 0, 0)
    \/ (\E j \in jobs : RollFire(j)) /\ Cap(g, 0, 0, 0)
    \/ (\E j \in jobs, s1 \in DieSources, s2 \in DieSources, r1 \in DieFaces, r2 \in DieFaces :
            RollDiceFrom(j, s1, s2, r1, r2)) /\ Cap(g, 0, 0, 0)
    \/ (\E j \in jobs : RollFinish(j)) /\ Cap(g, 0, 0, 0)

SpecDice == Init /\ [][NextDice(DiceGames)]_vars

\* the bounds of SpecCmd: games created and refusals recorded in one behaviour
CapCmd(g) ==
    /\ Len(games') <= g
    /\ Cardinality(refused') <= MaxRefused

\* /startdice with every kind of argument and /stop, handled at any point of single
\* rounds and sequences, without bets
NextCmd(g) ==
    \/ (\E n \in CmdArgs : StartDice(n)) /\ CapCmd(g)
    \/ StartRoundSent /\ CapCmd(g)
    \/ StartSeqSent /\ CapCmd(g)
    \/ UpdSendFails /\ CapCmd(g)
    \/ StopGame /\ CapCmd(g)
    \/ (\E j \in jobs : CloseFire(j)) /\ CapCmd(g)
    \/ (\E j \in jobs : CloseSent(j)) /\ CapCmd(g)
    \/ (\E j \in jobs : RollFire(j)) /\ CapCmd(g)
    \/ (\E j \in jobs, r \in IdleRolls : RollDice(j, r[1], r[2])) /\ CapCmd(g)
    \/ (\E j \in jobs : RollFinish(j)) /\ CapCmd(g)
    \/ (\E j \in jobs : JobSendFails(j)) /\ CapCmd(g)
    \/ (\E j \in jobs : SeqFire(j)) /\ CapCmd(g)
    \/ (\E j \in jobs : SeqOpenSent(j)) /\ CapCmd(g)

\* commands accepted and refused during single rounds and sequences
SpecCmd == Init /\ [][NextCmd(CmdGames)]_vars

\* one round with bets, and the bot removed from the chat at any point
SpecLeave ==
    Init /\ [][\/ NextRound(MaxGames, TwoAdjust, TwoBets, 0)
               \/ /\ BotRemoved
                  /\ events'["bot_removed"] <= MaxLeave
                  /\ Cap(MaxGames, TwoAdjust, TwoBets, 0)]_vars

\* single rounds with /stop, without bets, within the bounds given
NextPlain(g, l) ==
    \/ StartDice(1) /\ Cap(g, 0, 0, l)
    \/ StartRoundSent /\ Cap(g, 0, 0, l)
    \/ StopGame /\ Cap(g, 0, 0, l)
    \/ (\E j \in jobs : CloseFire(j)) /\ Cap(g, 0, 0, l)
    \/ (\E j \in jobs : CloseSent(j)) /\ Cap(g, 0, 0, l)
    \/ (\E j \in jobs : RollFire(j)) /\ Cap(g, 0, 0, l)
    \/ (\E j \in jobs, r \in Rolls : RollDice(j, r[1], r[2])) /\ Cap(g, 0, 0, l)
    \/ (\E j \in jobs : RollFinish(j)) /\ Cap(g, 0, 0, l)

\* two rounds without bets, and a roll callback that may be invoked a second time
SpecLateRollTwo ==
    Init /\ [][\/ NextPlain(TwoGames, MaxLate)
               \/ (\E g \in 1..Len(games) : LateRollFire(g))
                     /\ Cap(TwoGames, 0, 0, MaxLate)]_vars

\* ------------------------------------------------------ dice_bot.py
\* the variables of the group bot (main.py, handlers.py, game_logic.py), which the
\* standalone dice_bot.py does not share, without the count of adjustments
arena_vars == <<player_stats, match_counter, match_history, consecutive_idle_matches,
                games, chat_data, jobs, upd, bets_made, refused, payouts, refunded,
                fired, lates, events>>

NoBets == [bt \in BetTypes |-> 0]

\* DiceGame.initialize_user
initialize_user(us, user_id) ==
    IF user_id \in DOMAIN us THEN us
    ELSE [u \in DOMAIN us \cup {user_id} |->
             IF u = user_id
                THEN [points |-> INITIAL_POINTS, bets |-> NoBets, wins |-> 0, losses |-> 0]
                ELSE us[u]]

\* sum(users[user_id]["bets"].values())
TotalBet(us, user_id) == SumOver(BetTypes, us[user_id].bets)

\* validate_bet comparing the points with the new amount only
validate_bet_ignores_pending(us, user_id, amount) ==
    IF amount <= 0 THEN FALSE
    ELSE IF amount > MAX_BET THEN FALSE
    ELSE IF us[user_id].points < amount THEN FALSE
    ELSE TRUE

\* validate_bet, for a user that exists
validate_bet(us, user_id, amount) ==
    IF amount <= 0 THEN FALSE
    ELSE IF amount > MAX_BET THEN FALSE
    ELSE IF us[user_id].points < TotalBet(us, user_id) + amount THEN FALSE
    ELSE TRUE

\* dice_bot.place_bet: /b, /s, /l with an integer amount
dice_bot_place_bet(user_id, bet_type, amount) ==
    /\ LET us == initialize_user(users, user_id) IN
          users' = IF validate_bet(us, user_id, amount)
                      THEN [us EXCEPT ![user_id].bets[bet_type] = amount]
                      ELSE us
    /\ UNCHANGED <<arena_vars, adjusts>>

\* dice_bot.roll_dice: /roll
roll_dice(dice1, dice2) ==
    LET active_players == {u \in DOMAIN users : TotalBet(users, u) > 0}
        total == dice1 + dice2
        settled(u) ==
            LET bets == users[u].bets
                total_bet == TotalBet(users, u)
                payout_ == IF total > 7 THEN bets["big"] * 2
                           ELSE IF total < 7 THEN bets["small"] * 2
                           ELSE bets["lucky"] * 5
                net_change == payout_ - total_bet
            IN  [points |-> users[u].points + net_change,
                 bets |-> NoBets,
                 wins |-> users[u].wins + (IF net_change > 0 THEN 1 ELSE 0),
                 losses |-> users[u].losses + (IF net_change < 0 THEN 1 ELSE 0)]
    IN  /\ users' = IF active_players = {} THEN users
                    ELSE [u \in DOMAIN users |->
                             IF u \in active_players THEN settled(u) ELSE users[u]]
        /\ UNCHANGED <<arena_vars, adjusts>>

\* dice_bot.adjust_score: /adjust <user_id> <amount> by an admin
dice_bot_adjust_score(target_id, amount) ==
    /\ adjusts' = adjusts + 1
    /\ users' = IF target_id \notin DOMAIN users THEN users
                ELSE [users EXCEPT ![target_id].points = @ + amount]
    /\ UNCHANGED arena_vars

\* the bounds of SpecBot
CapBot ==
    /\ adjusts' <= BotAdjust
    /\ \A u \in DOMAIN users' :
          /\ users'[u].points <= BotMaxPoints
          /\ users'[u].wins + users'[u].losses <= BotRounds

NextBot ==
    \/ (\E u \in Players, bt \in BetTypes, a \in BotAmounts : dice_bot_place_bet(u, bt, a))
          /\ CapBot
    \/ (\E d1 \in DieFaces, d2 \in DieFaces : roll_dice(d1, d2)) /\ CapBot
    \/ (\E u \in Players, a \in BotAdjustAmounts : dice_bot_adjust_score(u, a)) /\ CapBot

\* the standalone bot started without a data file
SpecBot == Init /\ [][NextBot]_vars

\* ------------------------------------------------------ quantities of the claims
ScoreOf(ps, p) == IF p \in DOMAIN ps THEN ps[p].score ELSE 0

\* sum of all player balances
TotalBalance(ps) == SumOver(DOMAIN ps, [p \in DOMAIN ps |-> ps[p].score])

\* sum of the stakes in the bet book of a game
Stakes(game) == SumOver(Players, [p \in Players |-> TotalBetByUser(game, p)])

\* games that are neither settled (payout executed) nor refunded
Outstanding(po, rf) == {g \in 1..Len(po) : po[g] = 0 /\ g \notin rf}

\* sum of all balances + sum of the stakes held by outstanding rounds
Quantity(ps, gs, po, rf) ==
    TotalBalance(ps) + SumOver(Outstanding(po, rf),
                               [g \in Outstanding(po, rf) |-> Stakes(gs[g])])

\* stake x multiplier summed over the winning stakes of a game with a result:
\* 7 pays the lucky bucket 5 times, more than 7 the big bucket twice, less the small
Winnings(game) ==
    LET w == IF game.result = 7 THEN "lucky" ELSE IF game.result > 7 THEN "big" ELSE "small"
        m == IF w = "lucky" THEN 5 ELSE 2
    IN  SumOver(Players, [p \in Players |-> game.bets[w][p] * m])

\* the current round exists and is open for bets
CurrentOpen == chat_data.game # None /\ games[chat_data.game].state = WAITING_FOR_BETS

\* the games whose timer of the kind given fires in this step
FiresNow(kind) ==
    {g \in 1..Len(games) : <<kind, g>> \in fired' /\ <<kind, g>> \notin fired}

\* ------------------------------------------------------ claims
\* C1: balance conservation.  Without an administrative adjustment, a step that
\* settles no round (a bet placement, a stop, a timer callback, a start) leaves the
\* sum of all balances plus the stakes of the rounds neither settled nor refunded
\* unchanged; a step that settles a round takes that round's stakes out of the
\* quantity and adds stake x multiplier for each of its winning stakes.
C1_BalanceConservation ==
    [][LET before == Quantity(player_stats, games, payouts, refunded)
           after == Quantity(player_stats', games', payouts', refunded')
           settled == {g \in 1..Len(games) : payouts'[g] # payouts[g]}
           held(g) == IF g \in Outstanding(payouts, refunded) THEN Stakes(games[g]) ELSE 0
       IN  adjusts' = adjusts =>
              IF settled = {} THEN after = before
              ELSE \E g \in settled :
                      /\ settled = {g}
                      /\ after = before - held(g) + Winnings(games'[g])
    ]_vars

\* a round with bets of two players on two outcomes was settled, one outcome winning
C1_Witness_SettledWithWinnerAndLoser ==
    \E g \in 1..Len(games) :
        /\ payouts[g] = 1
        /\ g \notin refunded
        /\ Winnings(games[g]) > 0
        /\ Cardinality(games[g].participants) = 2
        /\ \E p \in Players : TotalBetByUser(games[g], p) > 0
                                /\ player_stats[p].losses = 1

\* C2: in every reachable state every player account has a balance >= 0.
C2_NoNegativeBalance ==
    \A p \in DOMAIN player_stats : player_stats[p].score >= 0

\* C3: a bet is accepted only while the current round is open for bets.  A bet
\* handled when there is no current round, or when it is closed or over, is refused
\* and changes no balance and no game; in a step taken while the current round is not
\* open no place_bet call is made and no bet book or participant set changes; and
\* while it is open only the current round's book and participants can change.
C3_BetsOnlyWhileOpen ==
    [][/\ (refused' \ refused) \cap {"NoGame", "Closed", "Over"} # {} =>
            ~CurrentOpen /\ player_stats' = player_stats /\ games' = games
       /\ bets_made' # bets_made => CurrentOpen
       /\ \A g \in 1..Len(games) :
            (games'[g].bets # games[g].bets
               \/ games'[g].participants # games[g].participants)
            => CurrentOpen /\ chat_data.game = g
    ]_vars

\* a bet was refused on a closed round that holds stakes, and the round's book still
\* holds exactly what the players are short of
C3_Witness_RefusedWhileClosed ==
    /\ "Closed" \in refused
    /\ chat_data.game # None
    /\ games[chat_data.game].state = GAME_CLOSED
    /\ Stakes(games[chat_data.game]) > 0

\* a game is referenced by the chat, by a job or running callback, or by the
\* update handler in progress
Referenced(g) ==
    \/ chat_data.game = g
    \/ \E j \in jobs : j.gid = g
    \/ upd.gid = g

\* C4: no round holding accepted stakes is discarded or superseded without being
\* settled or refunded: a game whose book holds stakes and that was neither paid out
\* nor refunded is still the current game or still has a timer or callback of its own.
C4_NoStrandedStakes ==
    \A g \in 1..Len(games) :
        (Stakes(games[g]) > 0 /\ payouts[g] = 0 /\ g \notin refunded) => Referenced(g)

\* C5: monotonic state.  A game is created open for bets, and every change of a
\* game's state goes from open to closed or from closed to over.
C5_MonotonicState ==
    [][/\ \A g \in 1..Len(games) :
            games'[g].state # games[g].state =>
                <<games[g].state, games'[g].state>> \in
                    {<<WAITING_FOR_BETS, GAME_CLOSED>>, <<GAME_CLOSED, GAME_OVER>>}
       /\ \A g \in (Len(games) + 1)..Len(games') : games'[g].state = WAITING_FOR_BETS
    ]_vars

\* a round of a sequence went through all three states while a second round exists
C5_Witness_SecondRoundOver ==
    /\ Len(games) = 2
    /\ games[1].state = GAME_OVER
    /\ games[2].state = GAME_OVER
    /\ <<"close", 2>> \in fired
    /\ <<"roll", 2>> \in fired

\* C6: at-most-once settlement.  payout is executed at most once for a game, at most
\* one history entry carries the game's match id, and a player's wins and losses
\* together count at most the settled games the player took part in.
C6_AtMostOnceSettlement ==
    /\ \A g \in 1..Len(games) :
          /\ payouts[g] <= 1
          /\ Cardinality({i \in 1..Len(match_history) :
                            match_history[i].match_id = games[g].match_id}) <= 1
    /\ \A p \in DOMAIN player_stats :
          player_stats[p].wins + player_stats[p].losses
             <= Cardinality({g \in 1..Len(games) :
                               payouts[g] >= 1 /\ p \in games[g].participants})

\* the roll callback of a settled round with a winner was invoked a second time
C6_Witness_LateRollAfterPayout ==
    \E g \in 1..Len(games) :
        /\ lates = 1
        /\ payouts[g] = 1
        /\ Len(match_history) = 1
        /\ \E p \in DOMAIN player_stats : player_stats[p].wins = 1
        /\ \A j \in jobs : j.gid # g

\* C7: full refund on stop.  A bet placement keeps, for every player, the balance
\* plus the player's stakes in the current round; a successful stop credits every
\* player exactly the player's stakes over the three buckets of the stopped round.
\* So with no settlement or adjustment in between, the stop restores the balances the
\* players had before betting in that round.
C7_FullRefundOnStop ==
    [][/\ bets_made' # bets_made =>
            \A p \in Players :
                ScoreOf(player_stats', p) + TotalBetByUser(games'[chat_data.game], p)
                  = ScoreOf(player_stats, p) + TotalBetByUser(games[chat_data.game], p)
       /\ \A g \in refunded' \ refunded :
            /\ \A p \in Players :
                  ScoreOf(player_stats', p)
                    = ScoreOf(player_stats, p) + TotalBetByUser(games[g], p)
            /\ \A p \in DOMAIN player_stats :
                  /\ player_stats'[p].wins = player_stats[p].wins
                  /\ player_stats'[p].losses = player_stats[p].losses
            /\ match_history' = match_history
    ]_vars

\* a round with stakes of both players, one of them on two buckets one of which is
\* lucky, was stopped and both players hold the 200 they had before betting
C7_Witness_StoppedWithTwoBettors ==
    \E g \in refunded :
        /\ payouts[g] = 0
        /\ \A p \in Players : TotalBetByUser(games[g], p) > 0
        /\ \E p \in Players : games[g].bets["lucky"][p] > 0
                                /\ TotalBetByUser(games[g], p) = 200
        /\ \A p \in Players : player_stats[p].score = 200

\* C8: a roll callback whose game is not the chat's current game is a no-op: in
\* the step in which the roll timer of such a game fires no game, balance, counter
\* or history entry changes, the current game and the sequence stay as they are, and
\* the callback ends there.
C8_StaleRollIsNoOp ==
    [][\A g \in FiresNow("roll") :
          chat_data.game # g =>
             /\ games' = games
             /\ player_stats' = player_stats
             /\ match_history' = match_history
             /\ chat_data'.game = chat_data.game
             /\ chat_data'.num_matches_total = chat_data.num_matches_total
             /\ chat_data'.current_match_index = chat_data.current_match_index
             /\ \A j \in jobs' : ~(j.kind = "roll" /\ j.gid = g)
    ]_vars

\* C9: a close callback whose game is not the chat's current game is a no-op: in
\* the step in which the close timer of such a game fires no game changes, no
\* message is sent, and no job or running callback is added.
C9_StaleCloseIsNoOp ==
    [][\A g \in FiresNow("close") :
          chat_data.game # g =>
             /\ games' = games
             /\ events' = events
             /\ jobs' \subseteq jobs
    ]_vars

\* the close timer of a game fired after the game was stopped or replaced: the game
\* is still open for bets and has no roll timer
C9_Witness_StaleCloseFired ==
    \E g \in 1..Len(games) :
        /\ <<"close", g>> \in fired
        /\ games[g].state = WAITING_FOR_BETS
        /\ chat_data.game # g
        /\ \A j \in jobs : j.gid # g

\* C10: idempotent late close timer.  A second invocation of the close callback of
\* a round changes no game, sends no message and adds no job or running callback
\* (so no further roll timer is scheduled).
C10_LateCloseIsNoOp ==
    [][lates' # lates =>
          /\ games' = games
          /\ events' = events
          /\ jobs' \subseteq jobs
    ]_vars

\* C11: idempotent late roll timer.  A second invocation of the roll callback of a
\* round, made when no roll callback is at work (so the round has been settled),
\* changes no player record, no history, no game, no idle streak and no sequence
\* state, sends no message, adds no job, and leaves the stored handle of a pending
\* timer, which is another round's, in place.
C11_LateRollIsNoOp ==
    [][(lates' # lates /\ \A j \in jobs : j.kind = "roll" => j.pc = "pending") =>
          /\ player_stats' = player_stats
          /\ match_history' = match_history
          /\ games' = games
          /\ consecutive_idle_matches' = consecutive_idle_matches
          /\ chat_data'.game = chat_data.game
          /\ chat_data'.num_matches_total = chat_data.num_matches_total
          /\ chat_data'.current_match_index = chat_data.current_match_index
          /\ events' = events
          /\ jobs' \subseteq jobs
          /\ \A j \in jobs :
                (j.pc = "pending" /\ j.id = chat_data.roll_and_announce_job)
                   => chat_data'.roll_and_announce_job = j.id
    ]_vars

\* C12: after a successful stop the chat has no current game, no sequence, no
\* stored handle and no pending timer, and nothing scheduled for a stopped round runs
\* afterwards: a stopped game never changes again and no job or callback step is
\* added for it, also when a callback was suspended at an await during the stop.
C12_StopLeavesNothingRunning ==
    [][/\ refunded' # refunded =>
            /\ chat_data'.game = None
            /\ chat_data'.num_matches_total = None
            /\ chat_data'.current_match_index = NoIndex
            /\ chat_data'.close_bets_job = None
            /\ chat_data'.roll_and_announce_job = None
            /\ chat_data'.next_game_job = None
            /\ \A j \in jobs' : j.pc # "pending"
       /\ \A g \in refunded :
            /\ games'[g] = games[g]
            /\ \A j \in jobs' : j.gid = g => j \in jobs
    ]_vars

\* C13: frame of stop.  A step in which stop_game refunds a round leaves the set of
\* player accounts, every account's wins and losses, the idle streak, the match
\* counter and the match history as they were.
C13_StopFrame ==
    [][refunded' # refunded =>
          /\ DOMAIN player_stats' = DOMAIN player_stats
          /\ \A p \in DOMAIN player_stats :
                /\ player_stats'[p].wins = player_stats[p].wins
                /\ player_stats'[p].losses = player_stats[p].losses
          /\ consecutive_idle_matches' = consecutive_idle_matches
          /\ match_counter' = match_counter
          /\ match_history' = match_history ]_vars

\* a round holding a stake was stopped after an earlier round of the chat was settled
\* idle: the streak and the history are those the settled round left
C13_Witness_StoppedAfterIdleRound ==
    /\ \E g \in refunded : Stakes(games[g]) > 0
    /\ consecutive_idle_matches = 1
    /\ Len(match_history) = 1

\* C14: a stop command handled when the chat has no current round, or when the
\* current round is over, is refused and changes nothing: no balance, no game, no
\* sequence field, no stored handle and no job; and stop_game refunds a round only
\* when the chat has a current round that is not over.
C14_StopWithoutActiveRound ==
    [][/\ (refused' \ refused) \cap {"NoActiveRound", "RoundOver"} # {} =>
            /\ chat_data.game = None \/ games[chat_data.game].state = GAME_OVER
            /\ UNCHANGED <<player_stats, match_counter, match_history,
                           consecutive_idle_matches, games, chat_data, jobs>>
       /\ refunded' # refunded =>
            /\ chat_data.game # None
            /\ games[chat_data.game].state # GAME_OVER
            /\ refunded' = refunded \cup {chat_data.game}
    ]_vars

\* a stop was refused for a round that is over while its roll callback, holding the
\* paid-out round as current, is still in progress
C14_Witness_StopRefusedRoundOver ==
    /\ "RoundOver" \in refused
    /\ chat_data.game # None
    /\ games[chat_data.game].state = GAME_OVER
    /\ payouts[chat_data.game] = 1
    /\ chat_data.game \notin refunded
    /\ \E j \in jobs : j.kind = "roll" /\ j.gid = chat_data.game /\ j.pc # "pending"

\* C15: a start command handled while the current round is open or closed is
\* refused and leaves the games (state, bet book, participants), the match counter,
\* the sequence fields, the stored handles and the jobs as they were; and no step of
\* start_dice creates a game or begins a sequence while the current round is open
\* or closed.
C15_StartRejectedWhileActive ==
    [][/\ "RoundAlreadyActive" \in refused' \ refused =>
            /\ chat_data.game # None
            /\ games[chat_data.game].state \in {WAITING_FOR_BETS, GAME_CLOSED}
            /\ UNCHANGED <<player_stats, match_counter, match_history,
                           consecutive_idle_matches, games, chat_data, jobs>>
       /\ (upd.pc = "idle" /\ upd'.pc \in {"start_round_send", "start_seq_send"}) =>
            \/ chat_data.game = None
            \/ games[chat_data.game].state = GAME_OVER
    ]_vars

\* a start command was refused while the current round is closed, holds a stake and
\* waits for its roll job
C15_Witness_StartRefusedWhileClosed ==
    /\ "RoundAlreadyActive" \in refused
    /\ chat_data.game # None
    /\ games[chat_data.game].state = GAME_CLOSED
    /\ Stakes(games[chat_data.game]) > 0
    /\ \E j \in jobs : /\ j.kind = "roll" /\ j.pc = "pending"
                        /\ j.id = chat_data.roll_and_announce_job

\* C16: at most one live round per chat.  A step that creates a game is taken only
\* when no game of the chat that was not stopped is open or closed, and the game it
\* replaces as the current game, if any, has been paid out.
C16_AtMostOneLiveRound ==
    [][Len(games') > Len(games) =>
          /\ \A g \in 1..Len(games) :
                games[g].state \in {WAITING_FOR_BETS, GAME_CLOSED} => g \in refunded
          /\ chat_data.game # None => payouts[chat_data.game] >= 1 ]_vars

\* the outcome and the multiplier that the claims C17 to C19 give for a result
Outcome(result) ==
    IF result = 7 THEN "lucky" ELSE IF result > 7 THEN "big" ELSE "small"

Factor(result) == IF result = 7 THEN 5 ELSE 2

\* the games that the step pays out
Settling == {g \in 1..Len(games) : payouts'[g] # payouts[g]}

\* C17: the winning outcome is a total function of the result.  In every step that
\* settles a round the result lies in 2..12, a history entry is written whose winner
\* is lucky for 7, big above 7 and small below 7, and the balances grow by the stakes
\* on that outcome times 5 for lucky and times 2 for big and small.
C17_WinnerIsFunctionOfResult ==
    [][\A g \in Settling :
          LET result == games'[g].result
              last == match_history'[Len(match_history')]
          IN  /\ result \in 2..12
              /\ Len(match_history') = Len(match_history) + 1
              /\ last.result = result
              /\ last.winner = Outcome(result)
              /\ TotalBalance(player_stats') - TotalBalance(player_stats)
                    = Factor(result)
                        * SumOver(Players, [p \in Players |-> games[g].bets[Outcome(result)][p]])
    ]_vars

\* a round with result 7 was settled as lucky and paid five times the lucky stake
C17_Witness_SevenPaidAsLucky ==
    /\ Len(match_history) = 1
    /\ match_history[1].result = 7
    /\ match_history[1].winner = "lucky"
    /\ games[1].bets["lucky"]["P"] = 100
    /\ games[1].bets["lucky"]["Q"] = 0
    /\ TotalBalance(player_stats) = 900 + 500

C20_NoRoundStuck ==
    \A g \in 1..Len(games) :
        (games[g].state \in {WAITING_FOR_BETS, GAME_CLOSED} /\ g \notin refunded)
            => Referenced(g)

\* C21: the idle auto-stop is a hard stop.  A roll callback that found the idle
\* limit reached during a sequence ends with the sequence fields cleared, no current
\* game and no pending job left, and no step creates a game while such a callback is
\* in progress.
C21_AutoStopIsHardStop ==
    [][\A j \in Running("roll", "r_autostop") :
          chat_data.num_matches_total # None =>
             /\ j \notin jobs' =>
                   /\ chat_data'.game = None
                   /\ chat_data'.num_matches_total = None
                   /\ chat_data'.current_match_index = NoIndex
                   /\ chat_data'.next_game_job = None
                   /\ chat_data'.close_bets_job = None
                   /\ \A k \in jobs' : k.pc # "pending"
             /\ Len(games') = Len(games)
    ]_vars

\* the number of games settled with no participant
IdleSettlements ==
    Cardinality({g \in 1..Len(games) : payouts[g] >= 1 /\ games[g].participants = {}})

\* C22: three consecutive idle settlements trigger exactly one auto-stop.  Without
\* any bet, every auto-stop event has three idle settlements of its own: the number
\* of auto-stop events times three is at most the number of games settled with no
\* participant.
C22_OneAutoStopPerThreeIdle ==
    bets_made = 0 => events["auto_stopped"] * IDLE_LIMIT <= IdleSettlements

\* C23: the idle streak.  A step in which place_bet accepts a bet sets the streak to
\* zero; a step in which a bet is rejected or refused leaves it as it was; and the
\* step in which a roll callback, after the results message, updates the streak sets
\* it to zero for a round with participants and adds one for a round without.
C23_IdleStreak ==
    [][/\ bets_made' # bets_made =>
            consecutive_idle_matches' =
               IF games' # games THEN 0 ELSE consecutive_idle_matches
       /\ refused' # refused => consecutive_idle_matches' = consecutive_idle_matches
       /\ \A j \in Running("roll", "r_result") :
            j \notin jobs' =>
               consecutive_idle_matches' =
                  IF games[j.gid].participants = {}
                     THEN consecutive_idle_matches + 1 ELSE 0
    ]_vars

\* round 1 was settled with no participant and its callback has ended, and a bet
\* accepted afterwards on round 2 has set the streak back to zero
C23_Witness_BetAfterIdleRound ==
    /\ Len(games) = 2
    /\ payouts[1] = 1
    /\ games[1].participants = {}
    /\ \A j \in jobs : j.gid # 1
    /\ payouts[2] = 0
    /\ Stakes(games[2]) > 0
    /\ consecutive_idle_matches = 0

\* C24: a sequence of N rounds.  A step in which the sequence timer creates a game
\* after the first round of the sequence is taken only when the game it replaces as
\* current, if any, is over and paid out, and every such step leaves at most N
\* rounds counted for the sequence; a step that emits the
\* sequence-complete event is taken with N rounds counted and clears the sequence.
C24_SequenceOpensRoundsInTurn ==
    [][/\ (Len(games') > Len(games) /\ upd' = upd) =>
            /\ (chat_data.current_match_index >= 1 /\ chat_data.game # None) =>
                  /\ games[chat_data.game].state = GAME_OVER
                  /\ payouts[chat_data.game] >= 1
            /\ chat_data'.current_match_index <= chat_data'.num_matches_total
       /\ events'["sequence_complete"] # events["sequence_complete"] =>
            /\ chat_data.current_match_index = chat_data.num_matches_total
            /\ chat_data'.num_matches_total = None
            /\ chat_data'.current_match_index = NoIndex
    ]_vars

\* C25: a start request whose count is not positive or exceeds the ceiling changes
\* nothing.  In every reachable state, for every such count, no step of start_dice
\* with that count changes a balance, a game, the match counter, the history, the
\* idle streak, the sequence fields, a stored handle, a job or the handler's position.
C25_BadCountChangesNothing ==
    \A n \in CmdArgs :
        (n <= 0 \/ n > 100) =>
            ~ENABLED (/\ StartDice(n)
                      /\ <<player_stats, match_counter, match_history,
                            consecutive_idle_matches, games, chat_data, jobs, upd>>'
                           # <<player_stats, match_counter, match_history,
                               consecutive_idle_matches, games, chat_data, jobs, upd>>)

\* a request above the ceiling was refused after a round of the chat had been
\* settled and cleaned up: no sequence is stored and no job is pending
C25_Witness_TooManyRefused ==
    /\ "TooManyMatches" \in refused
    /\ Len(games) = 1
    /\ payouts[1] = 1
    /\ chat_data.game = None
    /\ chat_data.num_matches_total = None
    /\ jobs = {}

\* a step in which nothing but the record of refusals changes, and reason is recorded
RefusedWith(reason) ==
    /\ refused' = refused \cup {reason}
    /\ UNCHANGED <<player_stats, match_counter, match_history, consecutive_idle_matches,
                   games, chat_data, jobs, upd>>

\* C26 as stated: while a sequence is active every start command, for a single round
\* or for a sequence, is refused with SequenceAlreadyActive and leaves the sequence
\* fields, the current game, the match counter and the jobs unchanged.
C26_StartRefusedAsSequenceActive ==
    \A n \in {1, 2} :
        chat_data.num_matches_total # None =>
            ~ENABLED (StartDice(n) /\ ~RefusedWith("SequenceAlreadyActive"))

\* C26: while a sequence is active every start command, for a single round or for a
\* sequence, is refused and leaves the sequence fields, the current game, the match
\* counter and the jobs unchanged; the refusal is RoundAlreadyActive while the current
\* round is open or closed and SequenceAlreadyActive otherwise.
C26_StartRefusedDuringSequence ==
    \A n \in {1, 2} :
        chat_data.num_matches_total # None =>
            ~ENABLED (StartDice(n) /\
                      ~RefusedWith(IF /\ chat_data.game # None
                                      /\ games[chat_data.game].state # GAME_OVER
                                      THEN "RoundAlreadyActive"
                                      ELSE "SequenceAlreadyActive"))

\* a start command was refused with SequenceAlreadyActive in the delay between two
\* rounds of a sequence: round 1 is over and paid out, the timer of round 2 is pending
C26_Witness_RefusedBetweenRounds ==
    /\ "SequenceAlreadyActive" \in refused
    /\ chat_data.num_matches_total = 2
    /\ chat_data.current_match_index = 1
    /\ chat_data.game = 1
    /\ payouts[1] = 1
    /\ \E j \in jobs : j.kind = "seq" /\ j.pc = "pending" /\ j.id = chat_data.next_game_job

\* C28: removal of the bot discards the whole arena.  The step that handles the
\* removal leaves no account, no history, the match counter at its start, no current
\* game, no sequence field, no stored handle and no pending job.
C28_RemovalDiscardsArena ==
    [][events'["bot_removed"] # events["bot_removed"] =>
          /\ DOMAIN player_stats' = {}
          /\ match_history' = <<>>
          /\ match_counter' = 1
          /\ chat_data'.game = None
          /\ chat_data'.num_matches_total = None
          /\ chat_data'.current_match_index = NoIndex
          /\ chat_data'.close_bets_job = None
          /\ chat_data'.roll_and_announce_job = None
          /\ chat_data'.next_game_job = None
          /\ \A j \in jobs' : j.pc # "pending"
    ]_vars

\* amounts offered to place_bet: negative, zero, below the minimum, the minimum, more
ValidationAmounts == {-100, 0, 50, 100, 200}

\* C29: on an open round a bet with amount <= 0 is rejected as InvalidAmount, one
\* with 0 < amount < MIN_BET_AMOUNT as BelowMinimum, one with amount above the
\* player's balance as InsufficientFunds; every rejection is returned (not raised)
\* and leaves the player's balance, the bet book and the participants unchanged
C29_RejectionsAreReturned ==
    CurrentOpen =>
        \A p \in Players, bt \in BetTypes, amt \in ValidationAmounts :
            LET game == games[chat_data.game]
                r == place_bet(player_stats, game, p, bt, amt)
                expected == IF amt <= 0 THEN "InvalidAmount"
                            ELSE IF amt < MIN_BET_AMOUNT THEN "BelowMinimum"
                            ELSE IF amt > ScoreOf(player_stats, p) THEN "InsufficientFunds"
                            ELSE "none"
            IN  /\ r.err = expected
                /\ r.ok <=> expected = "none"
                /\ ~r.ok => /\ ~r.raised
                            /\ r.game = game
                            /\ ScoreOf(r.ps, p) = ScoreOf(player_stats, p)

\* C30: the match history never holds more than 20 entries
C30_HistoryAtMostTwenty == Len(match_history) <= 20

\* C31: match ids are unique and strictly increasing.  Every round opened takes the
\* value of the chat's match counter as its match id and the counter then grows by
\* one; of two rounds the one opened later has the larger match id, also when it
\* was opened by a sequence or after a stop.
C31_MatchIdsIncrease ==
    [][/\ \A g \in (Len(games) + 1)..Len(games') :
             /\ games'[g].match_id = match_counter
             /\ match_counter' = match_counter + 1
       /\ \A g, h \in 1..Len(games') :
             g < h => games'[g].match_id < games'[h].match_id
    ]_vars

\* the second round of a sequence was opened after the first round, a single one,
\* had been stopped
C31_Witness_SequenceRoundAfterStop ==
    /\ Len(games) = 2
    /\ 1 \in refunded
    /\ chat_data.game = 2
    /\ chat_data.num_matches_total # None
    /\ games[2].match_id = 2

\* C32: a successful bet of amount a by player p on outcome o takes exactly a from
\* p's balance, adds exactly a to p's stake on o (on top of an earlier stake), makes
\* p a participant, and leaves p's other stakes, every other player's stakes and
\* balance, and the state of the round unchanged.
C32_BetFrame ==
    [][\A g \in 1..Len(games) :
          (bets_made' # bets_made /\ games'[g] # games[g]) =>
             \E p \in Players, o \in BetTypes, a \in BetAmounts \cup {BUTTON_BET_AMOUNT} :
                /\ a >= MIN_BET_AMOUNT
                /\ g = chat_data.game
                /\ games[g].state = WAITING_FOR_BETS
                /\ ScoreOf(player_stats', p) = ScoreOf(player_stats, p) - a
                /\ games'[g].bets[o][p] = games[g].bets[o][p] + a
                /\ games'[g].participants = games[g].participants \cup {p}
                /\ \A o2 \in BetTypes, p2 \in Players :
                      <<o2, p2>> # <<o, p>> =>
                          games'[g].bets[o2][p2] = games[g].bets[o2][p2]
                /\ \A p2 \in Players \ {p} :
                      ScoreOf(player_stats', p2) = ScoreOf(player_stats, p2)
                /\ games'[g].state = games[g].state
                /\ games'[g].match_id = games[g].match_id
                /\ games'[g].result = games[g].result
                /\ \A h \in 1..Len(games) : h # g => games'[h] = games[h]
    ]_vars

\* in an open round one player staked twice on one outcome and the other player
\* once on another outcome
C32_Witness_AccumulatedStake ==
    /\ CurrentOpen
    /\ \E p, q \in Players, o, o2 \in BetTypes :
          /\ p # q
          /\ o # o2
          /\ games[chat_data.game].bets[o][p] = 2 * MIN_BET_AMOUNT
          /\ games[chat_data.game].bets[o2][q] = MIN_BET_AMOUNT
          /\ games[chat_data.game].participants = {p, q}
          /\ ScoreOf(player_stats, p) = 0

\* C33: every settlement appends exactly one history entry, carrying the round's
\* match id, result, winning outcome and the number of its participants; for a
\* round without any stake the entry counts 0 participants and the settlement
\* changes no balance and no wins or losses counter.
C33_OneHistoryEntryPerSettlement ==
    [][\A g \in Settling :
          /\ match_history' =
                Append(match_history,
                       [match_id |-> games[g].match_id,
                        result |-> games'[g].result,
                        winner |-> Outcome(games'[g].result),
                        participants |-> Cardinality(games[g].participants)])
          /\ Stakes(games[g]) = 0 =>
                /\ match_history'[Len(match_history')].participants = 0
                /\ player_stats' = player_stats
    ]_vars

\* C34: the result of every settled round is the sum of two dice, each in 1..6, and
\* so lies in 2..12, whether both send_dice calls gave a value or one of them failed
\* and both dice were drawn again locally.
C34_ResultIsSumOfTwoDice ==
    [][\A g \in Settling :
          /\ games'[g].result \in 2..12
          /\ \E d1 \in 1..6, d2 \in 1..6 : games'[g].result = d1 + d2
          /\ match_history'[Len(match_history')].result = games'[g].result
    ]_vars

\* two rounds were settled, one with the least and one with the greatest result
C34_Witness_TwoAndTwelve ==
    /\ Len(games) = 2
    /\ payouts = <<1, 1>>
    /\ games[1].result = 2
    /\ games[2].result = 12

\* the step handles a /stop command: it stops a round or refuses to
StopHandled ==
    \/ refunded' # refunded
    \/ (refused' \ refused) \cap {"NoActiveRound", "RoundOver"} # {}

\* C35: a stop handled at any moment while a sequence is active (a round of it open
\* or closed, the delay before its first round, or the delay between two rounds)
\* ends the sequence: no sequence is active afterwards and no timer that opens a
\* further round of it is pending.
C35_StopEndsSequence ==
    [][(StopHandled /\ chat_data.num_matches_total # None) =>
          /\ chat_data'.num_matches_total = None
          /\ \A j \in jobs' : ~(j.kind = "seq" /\ j.pc = "pending")
    ]_vars

\* C36: the idle check and the auto-stopped event apply only while a sequence is
\* active: the settlement of a single round started outside any sequence emits no
\* auto-stopped event, whatever the idle streak.
C36_NoAutoStopOutsideSequence ==
    [][events'["auto_stopped"] # events["auto_stopped"] =>
          chat_data.num_matches_total # None
    ]_vars

\* C37: the cleanup that ends a round's settlement clears the chat's current round
\* only if that is the round being settled: a newer round opened while the roll
\* callback was suspended stays the current round, with its bet book and its close
\* timer as they were.
C37_CleanupKeepsNewerRound ==
    [][\A j \in jobs :
          (/\ j.kind = "roll"
           /\ j.pc \in {"r_dice", "r_result", "r_autostop"}
           /\ j \notin jobs'
           /\ chat_data.game # None
           /\ chat_data.game # j.gid) =>
             /\ chat_data'.game = chat_data.game
             /\ games'[chat_data.game].bets = games[chat_data.game].bets
             /\ \A c \in jobs : (c.kind = "close" /\ c.gid = chat_data.game) => c \in jobs'
    ]_vars

\* no update handler and no job callback is in progress
Quiescent == upd.pc = "idle" /\ \A j \in jobs : j.pc = "pending"

\* C38: timer coverage of a live round.  In every state outside a callback in
\* progress, a current round that is open has a pending close timer and a current
\* round that is closed has a pending roll timer, also after the sending of the
\* round-opened or bets-closed message failed.
C38_LiveRoundHasTimer ==
    (Quiescent /\ chat_data.game # None) =>
        LET g == chat_data.game IN
        /\ games[g].state = WAITING_FOR_BETS => Pending("close") \cap {j \in jobs : j.gid = g} # {}
        /\ games[g].state = GAME_CLOSED => Pending("roll") \cap {j \in jobs : j.gid = g} # {}

\* the handle that the chat's data hold for a timer of the kind given
HandleOf(kind) ==
    IF kind = "close" THEN chat_data.close_bets_job
    ELSE IF kind = "roll" THEN chat_data.roll_and_announce_job
    ELSE chat_data.next_game_job

\* C39: at most one timer of the chat is pending at any time (a close timer, a roll
\* timer or a sequence timer), and the handle stored in the chat's data for its kind
\* refers to it; in particular no two sequence timers are pending together.
C39_OnePendingTimer ==
    /\ Cardinality({j \in jobs : j.pc = "pending"}) <= 1
    /\ \A j \in jobs : j.pc = "pending" => HandleOf(j.kind) = j.id

\* C40: in the standalone dice_bot.py, as long as no admin adjusted a score, the
\* total of a user's pending bets never exceeds the user's points and the points
\* are never negative, after any sequence of bets and rolls.
C40_PointsNeverNegative ==
    adjusts = 0 =>
        \A u \in DOMAIN users :
            /\ users[u].points >= 0
            /\ TotalBet(users, u) <= users[u].points

\* a user lost all points in one roll and another user holds pending bets
C40_Witness_LostEverything ==
    /\ adjusts = 0
    /\ \E u, v \in DOMAIN users :
          /\ users[u].points = 0
          /\ users[u].losses = 1
          /\ TotalBet(users, v) > 0

=============================================================================
